---- MODULE Spec2Model ----
(***************************************************************************)
(* Model of job-planner.py: a FastAPI service whose handlers each open a   *)
(* sqlite3 connection on job_planner.db, run one statement, commit and     *)
(* close.  A handler is modelled statement by statement so that requests   *)
(* served on different connections can interleave; the database file is    *)
(* shared and its write lock serialises writers.                           *)
(***************************************************************************)
EXTENDS Integers, Sequences, FiniteSets, TLC

(* ---------------------------------------------------------------------- *)
(* Bounds of the model                                                     *)
(* ---------------------------------------------------------------------- *)
NumProcs == 2        \* requests that can be in flight at the same time
MaxOps == 3          \* requests received in one behaviour

Procs == 1..NumProcs

(* ---------------------------------------------------------------------- *)
(* Values                                                                  *)
(* ---------------------------------------------------------------------- *)
\* Optional[T]: None is the empty sequence, a present value x is <<x>>.
None == <<>>
Some(x) == <<x>>

\* A datetime: date and time of day as integers, utcoffset None when naive.
Datetime(d, t, off) == [date |-> d, time |-> t, utcoffset |-> off]

\* A variant of AdaptDatetime that stores the naive local part only.
AdaptDatetime_naive(dt) == <<dt.date, dt.time>>

\* sqlite3's default adapter stores a datetime as the text isoformat(" "):
\* date, time and, for an aware datetime, the offset.
AdaptDatetime(dt) == <<dt.date, dt.time>> \o dt.utcoffset

\* pydantic parses the stored text back into a datetime (row[4] is text:
\* connect() is called without detect_types).
ParseDatetime(s) == [date |-> s[1], time |-> s[2], utcoffset |-> SubSeq(s, 3, Len(s))]

\* sqlite3 adapts a Python bool to the integers 0 and 1.
AdaptBool(b) == IF b THEN 1 ELSE 0

(* ---------------------------------------------------------------------- *)
(* Request bodies (pydantic models decoded from the request)               *)
(* ---------------------------------------------------------------------- *)
JobApplication(id, company, position, status, date_applied, url, notes) ==
    [id |-> id, company |-> company, position |-> position, status |-> status,
     date_applied |-> date_applied, url |-> url, notes |-> notes]

Task(id, title, due_date, completed, job_application_id) ==
    [id |-> id, title |-> title, due_date |-> due_date, completed |-> completed,
     job_application_id |-> job_application_id]

Contact(id, name, company, email, phone, notes) ==
    [id |-> id, name |-> name, company |-> company, email |-> email,
     phone |-> phone, notes |-> notes]

Document(id, title, type, version, last_updated, file_path) ==
    [id |-> id, title |-> title, type |-> type, version |-> version,
     last_updated |-> last_updated, file_path |-> file_path]

\* The bodies the model sends.  One body of each kind carries an id, which
\* the client is not meant to send.
ApplicationInputs ==
    { JobApplication(None, "Acme", "Engineer", "Applied",
                     Datetime(20240102, 90000, None), None, None),
      JobApplication(Some(7), "Globex", "Analyst", "Interview",
                     Datetime(20240203, 101500, Some(0)), Some("https://globex"), Some("referral")) }

TaskInputs ==
    { Task(None, "Follow up", Datetime(20240110, 120000, None), FALSE, Some(1)),
      Task(Some(5), "Send thanks", Datetime(20240211, 80000, Some(0)), TRUE, Some(9)) }

ContactInputs ==
    { Contact(Some(3), "Ada", "Acme", Some("ada@acme"), None, None) }

DocumentInputs ==
    { Document(Some(4), "CV", "Resume", "v1", Datetime(20240105, 0, None), "/docs/cv.pdf") }

\* Path parameters of PUT /tasks/{task_id}/complete.
TaskIds == {1, 2}

CreateOps == {"create_application", "create_task", "create_contact", "create_document"}

Requests ==
    [op : {"create_application"}, body : ApplicationInputs]
      \cup [op : {"create_task"}, body : TaskInputs]
      \cup [op : {"create_contact"}, body : ContactInputs]
      \cup [op : {"create_document"}, body : DocumentInputs]
      \cup [op : {"complete_task"}, task_id : TaskIds]
      \cup [op : {"get_applications", "get_application_stats"}]

(* ---------------------------------------------------------------------- *)
(* State                                                                   *)
(* ---------------------------------------------------------------------- *)
VARIABLES
    db,      \* committed contents of job_planner.db: table name -> rows in rowid order
    lock,    \* the process whose connection holds the write lock, 0 when free
    txn,     \* per process: the uncommitted write of its connection, None if none
    pc,      \* per process: position of the handler
    req,     \* per process: the request being served (kept after the response)
    obj,     \* per process: the handler's model object (application, task, ...)
    conn,    \* per process: "open" or "closed"
    cur,     \* per process: the cursor's lastrowid and rowcount
    resp,    \* per process: the response of the last request
    nreq     \* requests received so far

vars == <<db, lock, txn, pc, req, obj, conn, cur, resp, nreq>>

Tables == {"job_applications", "tasks", "contacts", "documents"}

NoRequest == [op |-> "none"]
NoResponse == [status |-> 0]
NoCursor == [lastrowid |-> None, rowcount |-> -1]

\* init_db on a fresh file: four empty tables.
init_db == [t \in Tables |-> <<>>]

Init ==
    /\ db = init_db
    /\ lock = 0
    /\ txn = [p \in Procs |-> None]
    /\ pc = [p \in Procs |-> "idle"]
    /\ req = [p \in Procs |-> NoRequest]
    /\ obj = [p \in Procs |-> None]
    /\ conn = [p \in Procs |-> "closed"]
    /\ cur = [p \in Procs |-> NoCursor]
    /\ resp = [p \in Procs |-> NoResponse]
    /\ nreq = 0

(* ---------------------------------------------------------------------- *)
(* The storage engine                                                      *)
(* ---------------------------------------------------------------------- *)
Ids(rows) == {rows[i].id : i \in DOMAIN rows}

SetMax(S) == CHOOSE m \in S : \A x \in S : x <= m

\* INTEGER PRIMARY KEY without a supplied value: one more than the largest
\* rowid in the table, 1 in an empty table.
NextRowid(rows) == IF rows = <<>> THEN 1 ELSE SetMax(Ids(rows)) + 1

\* A variant of CanWrite for a store that does not serialise writers.
CanWrite_unserialised(p) == TRUE

\* A write statement needs the database's write lock; sqlite gives it to one
\* connection at a time.
CanWrite(p) == lock = 0 \/ lock = p

\* A variant of ForeignKeyViolation for a connection with foreign keys on.
ForeignKeyViolation_enforced(op, row) ==
    /\ op = "create_task"
    /\ row.job_application_id # None
    /\ row.job_application_id[1] \notin Ids(db["job_applications"])

\* PRAGMA foreign_keys is never switched on, so the FOREIGN KEY clause of
\* tasks rejects nothing.
ForeignKeyViolation(op, row) == FALSE

\* A variant of InsertRow whose INSERT also names the id column.
InsertRow_supplied_id(op, o, id) ==
    LET k == IF o.id # None THEN o.id[1] ELSE id
    IN CASE op = "create_application" ->
              [id |-> k, company |-> o.company, position |-> o.position,
               status |-> o.status, date_applied |-> AdaptDatetime(o.date_applied),
               url |-> o.url, notes |-> o.notes]
         [] op = "create_task" ->
              [id |-> k, title |-> o.title, due_date |-> AdaptDatetime(o.due_date),
               completed |-> AdaptBool(o.completed),
               job_application_id |-> o.job_application_id]
         [] op = "create_contact" ->
              [id |-> k, name |-> o.name, company |-> o.company, email |-> o.email,
               phone |-> o.phone, notes |-> o.notes]
         [] op = "create_document" ->
              [id |-> k, title |-> o.title, type |-> o.type, version |-> o.version,
               last_updated |-> AdaptDatetime(o.last_updated), file_path |-> o.file_path]

\* The row each INSERT statement binds: the columns it names, in the stored
\* form; the id column is not among them.
InsertRow(op, o, id) ==
    CASE op = "create_application" ->
           [id |-> id, company |-> o.company, position |-> o.position,
            status |-> o.status, date_applied |-> AdaptDatetime(o.date_applied),
            url |-> o.url, notes |-> o.notes]
      [] op = "create_task" ->
           [id |-> id, title |-> o.title, due_date |-> AdaptDatetime(o.due_date),
            completed |-> AdaptBool(o.completed),
            job_application_id |-> o.job_application_id]
      [] op = "create_contact" ->
           [id |-> id, name |-> o.name, company |-> o.company, email |-> o.email,
            phone |-> o.phone, notes |-> o.notes]
      [] op = "create_document" ->
           [id |-> id, title |-> o.title, type |-> o.type, version |-> o.version,
            last_updated |-> AdaptDatetime(o.last_updated), file_path |-> o.file_path]

TableOf(op) ==
    CASE op = "create_application" -> "job_applications"
      [] op = "create_task" -> "tasks"
      [] op = "create_contact" -> "contacts"
      [] op = "create_document" -> "documents"

\* A variant of UpdateCompleted without the WHERE clause.
UpdateCompleted_all_rows(rows, task_id) ==
    [i \in DOMAIN rows |-> [rows[i] EXCEPT !.completed = 1]]

\* A variant of UpdateCompleted that flips the flag instead of setting it.
UpdateCompleted_toggle(rows, task_id) ==
    [i \in DOMAIN rows |->
        IF rows[i].id = task_id THEN [rows[i] EXCEPT !.completed = 1 - @] ELSE rows[i]]

\* UPDATE tasks SET completed = 1 WHERE id = ?
UpdateCompleted(rows, task_id) ==
    [i \in DOMAIN rows |->
        IF rows[i].id = task_id THEN [rows[i] EXCEPT !.completed = 1] ELSE rows[i]]

\* A variant of Rowcount that counts every row of the table.
Rowcount_all_rows(rows, task_id) == Len(rows)

\* A variant of Rowcount that counts only the rows whose value changed.
Rowcount_changed(rows, task_id) ==
    Cardinality({i \in DOMAIN rows : rows[i].id = task_id /\ rows[i].completed # 1})

\* cur.rowcount after the UPDATE: the rows the WHERE clause matched, whether
\* or not their value changed.
Rowcount(rows, task_id) == Cardinality({i \in DOMAIN rows : rows[i].id = task_id})

\* A variant of GroupByStatus that does not count past the first row of a group.
RECURSIVE GroupByStatus_first_only(_, _)
GroupByStatus_first_only(rows, groups) ==
    IF rows = <<>> THEN groups
    ELSE LET s == Head(rows).status
             at == {i \in DOMAIN groups : groups[i][1] = s}
         IN GroupByStatus_first_only(Tail(rows),
                          IF at = {} THEN Append(groups, <<s, 1>>) ELSE groups)

\* SELECT status, COUNT(*) FROM job_applications GROUP BY status: one result
\* row <<status, count>> per group, built by a pass over the table.
RECURSIVE GroupByStatus(_, _)
GroupByStatus(rows, groups) ==
    IF rows = <<>> THEN groups
    ELSE LET s == Head(rows).status
             at == {i \in DOMAIN groups : groups[i][1] = s}
         IN GroupByStatus(Tail(rows),
                          IF at = {} THEN Append(groups, <<s, 1>>)
                          ELSE [groups EXCEPT ![CHOOSE i \in at : TRUE][2] = @ + 1])

\* What COMMIT makes of the connection's uncommitted write.
ApplyTxn(d, w) ==
    IF w = None THEN d
    ELSE IF w[1].kind = "insert"
         THEN [d EXCEPT ![w[1].table] = Append(@, w[1].row)]
         ELSE [d EXCEPT !["tasks"] = UpdateCompleted(@, w[1].task_id)]

(* ---------------------------------------------------------------------- *)
(* Responses                                                               *)
(* ---------------------------------------------------------------------- *)
Ok(body) == [status |-> 200, body |-> body]
NotFound == [status |-> 404, detail |-> "Task not found"]
StorageFailure(what) == [status |-> 500, detail |-> what]

(* ---------------------------------------------------------------------- *)
(* Steps shared by the handlers                                            *)
(* ---------------------------------------------------------------------- *)
\* A request arrives and its handler runs sqlite3.connect and conn.cursor.
Connect(p, r) ==
    /\ pc[p] = "idle"
    /\ nreq < MaxOps
    /\ nreq' = nreq + 1
    /\ req' = [req EXCEPT ![p] = r]
    /\ obj' = [obj EXCEPT ![p] = IF r.op \in CreateOps THEN r.body ELSE None]
    /\ conn' = [conn EXCEPT ![p] = "open"]
    /\ cur' = [cur EXCEPT ![p] = NoCursor]
    /\ resp' = [resp EXCEPT ![p] = NoResponse]
    /\ pc' = [pc EXCEPT ![p] = "connected"]
    /\ UNCHANGED <<db, lock, txn>>

\* cur.execute(INSERT ...): takes the write lock and adds the row to the
\* connection's transaction.  A rejected statement raises out of the handler,
\* which has no handler of its own: conn.close() is not reached.
ExecuteInsert(p) ==
    /\ pc[p] = "connected"
    /\ CanWrite(p)
    /\ LET op == req[p].op
           row == InsertRow(op, obj[p], NextRowid(db[TableOf(op)]))
       IN IF ForeignKeyViolation(op, row)
          THEN /\ pc' = [pc EXCEPT ![p] = "raised"]
               /\ resp' = [resp EXCEPT ![p] = StorageFailure("FOREIGN KEY constraint failed")]
               /\ UNCHANGED <<lock, txn, cur>>
          ELSE /\ lock' = p
               /\ txn' = [txn EXCEPT ![p] = Some([kind |-> "insert", table |-> TableOf(op), row |-> row])]
               /\ cur' = [cur EXCEPT ![p] = [lastrowid |-> Some(row.id), rowcount |-> 1]]
               /\ pc' = [pc EXCEPT ![p] = "executed"]
               /\ UNCHANGED resp
    /\ UNCHANGED <<db, req, obj, conn, nreq>>

\* cur.execute of a write statement while another connection holds the write
\* lock and the busy timeout runs out: sqlite3.OperationalError leaves the
\* handler, conn.close() is not reached.
ExecuteBusy(p) ==
    /\ pc[p] = "connected"
    /\ req[p].op \in CreateOps \cup {"complete_task"}
    /\ ~CanWrite(p)
    /\ pc' = [pc EXCEPT ![p] = "raised"]
    /\ resp' = [resp EXCEPT ![p] = StorageFailure("database is locked")]
    /\ UNCHANGED <<db, lock, txn, req, obj, conn, cur, nreq>>

\* application.id = cur.lastrowid (task.id, contact.id, document.id alike)
SetId(p) ==
    /\ pc[p] = "executed"
    /\ obj' = [obj EXCEPT ![p].id = cur[p].lastrowid]
    /\ pc' = [pc EXCEPT ![p] = "idset"]
    /\ UNCHANGED <<db, lock, txn, req, conn, cur, resp, nreq>>

\* conn.commit()
Commit(p) ==
    /\ db' = ApplyTxn(db, txn[p])
    /\ txn' = [txn EXCEPT ![p] = None]
    /\ lock' = IF lock = p THEN 0 ELSE lock
    /\ pc' = [pc EXCEPT ![p] = "committed"]
    /\ UNCHANGED <<req, obj, conn, cur, resp, nreq>>

\* conn.close() and the return statement
CloseAndReturn(p, body) ==
    /\ conn' = [conn EXCEPT ![p] = "closed"]
    /\ resp' = [resp EXCEPT ![p] = Ok(body)]
    /\ pc' = [pc EXCEPT ![p] = "idle"]
    /\ UNCHANGED <<db, lock, txn, req, obj, cur, nreq>>

\* The steps of a create handler after the connection is open.
CreateSteps(p) ==
    \/ ExecuteInsert(p)
    \/ SetId(p)
    \/ pc[p] = "idset" /\ Commit(p)
    \/ pc[p] = "committed" /\ CloseAndReturn(p, obj[p])

(* ---------------------------------------------------------------------- *)
(* The handlers                                                            *)
(* ---------------------------------------------------------------------- *)
create_application(p) == req[p].op = "create_application" /\ CreateSteps(p)

create_task(p) == req[p].op = "create_task" /\ CreateSteps(p)

create_contact(p) == req[p].op = "create_contact" /\ CreateSteps(p)

create_document(p) == req[p].op = "create_document" /\ CreateSteps(p)

\* SELECT * FROM job_applications, fetchall and the loop that builds the list
get_applications_rows(rows) ==
    [i \in DOMAIN rows |->
        JobApplication(Some(rows[i].id), rows[i].company, rows[i].position,
                       rows[i].status, ParseDatetime(rows[i].date_applied),
                       rows[i].url, rows[i].notes)]

get_applications(p) ==
    /\ req[p].op = "get_applications"
    /\ \/ /\ pc[p] = "connected"
          /\ obj' = [obj EXCEPT ![p] = get_applications_rows(db["job_applications"])]
          /\ pc' = [pc EXCEPT ![p] = "fetched"]
          /\ UNCHANGED <<db, lock, txn, req, conn, cur, resp, nreq>>
       \/ pc[p] = "fetched" /\ CloseAndReturn(p, obj[p])

\* stats = {}; for row in cur.fetchall(): stats[row[0]] = row[1]
RECURSIVE BuildStats(_, _)
BuildStats(groups, stats) ==
    IF groups = <<>> THEN stats
    ELSE BuildStats(Tail(groups),
                    [k \in DOMAIN stats \cup {Head(groups)[1]} |->
                        IF k = Head(groups)[1] THEN Head(groups)[2] ELSE stats[k]])

get_application_stats_rows(rows) == BuildStats(GroupByStatus(rows, <<>>), <<>>)

get_application_stats(p) ==
    /\ req[p].op = "get_application_stats"
    /\ \/ /\ pc[p] = "connected"
          /\ obj' = [obj EXCEPT ![p] = get_application_stats_rows(db["job_applications"])]
          /\ pc' = [pc EXCEPT ![p] = "fetched"]
          /\ UNCHANGED <<db, lock, txn, req, conn, cur, resp, nreq>>
       \/ pc[p] = "fetched" /\ CloseAndReturn(p, obj[p])

\* cur.execute(UPDATE ...): takes the write lock even when no row matches.
ExecuteUpdate(p) ==
    /\ pc[p] = "connected"
    /\ CanWrite(p)
    /\ lock' = p
    /\ txn' = [txn EXCEPT ![p] = Some([kind |-> "update", task_id |-> req[p].task_id])]
    /\ cur' = [cur EXCEPT ![p] = [lastrowid |-> None,
                                  rowcount |-> Rowcount(db["tasks"], req[p].task_id)]]
    /\ pc' = [pc EXCEPT ![p] = "executed"]
    /\ UNCHANGED <<db, req, obj, conn, resp, nreq>>

\* if cur.rowcount == 0: raise HTTPException(404); the commit and the close
\* below it are skipped.
RaiseNotFound(p) ==
    /\ pc[p] = "executed"
    /\ cur[p].rowcount = 0
    /\ pc' = [pc EXCEPT ![p] = "raised"]
    /\ resp' = [resp EXCEPT ![p] = NotFound]
    /\ UNCHANGED <<db, lock, txn, req, obj, conn, cur, nreq>>

complete_task(p) ==
    /\ req[p].op = "complete_task"
    /\ \/ ExecuteUpdate(p)
       \/ RaiseNotFound(p)
       \/ pc[p] = "executed" /\ cur[p].rowcount # 0 /\ Commit(p)
       \/ pc[p] = "committed"
            /\ CloseAndReturn(p, [message |-> "Task marked as completed"])

\* A connection the handler left open is closed only when the interpreter
\* frees the object, at a time the handler does not control; its uncommitted
\* transaction is rolled back and its lock released then.
Finalize(p) ==
    /\ pc[p] = "raised"
    /\ conn' = [conn EXCEPT ![p] = "closed"]
    /\ txn' = [txn EXCEPT ![p] = None]
    /\ lock' = IF lock = p THEN 0 ELSE lock
    /\ pc' = [pc EXCEPT ![p] = "idle"]
    /\ UNCHANGED <<db, req, obj, cur, resp, nreq>>

Receive(p) == \E r \in Requests : Connect(p, r)

Next ==
    \E p \in Procs :
        \/ Receive(p)
        \/ create_application(p)
        \/ create_task(p)
        \/ create_contact(p)
        \/ create_document(p)
        \/ get_applications(p)
        \/ get_application_stats(p)
        \/ complete_task(p)
        \/ ExecuteBusy(p)
        \/ Finalize(p)

Spec == Init /\ [][Next]_vars

(* ---------------------------------------------------------------------- *)
(* Properties                                                              *)
(* ---------------------------------------------------------------------- *)
Stepped(p) == pc'[p] # pc[p]

Returned(p, op) == req[p].op = op /\ pc[p] = "idle" /\ resp[p].status = 200

IsCompleted(rows, task_id) ==
    \A i \in DOMAIN rows : rows[i].id = task_id => rows[i].completed = 1

RECURSIVE SumOver(_, _)
SumOver(f, S) ==
    IF S = {} THEN 0
    ELSE LET k == CHOOSE x \in S : TRUE IN f[k] + SumOver(f, S \ {k})

\* C1: an operation that has returned or raised has no connection left open.
ConnectionsReleased ==
    \A p \in Procs : pc[p] \in {"idle", "raised"} => conn[p] = "closed"

CreateThenListIncludes ==
    \A p \in Procs :
        Returned(p, "create_application") =>
            LET l == get_applications_rows(db["job_applications"])
                m == {i \in DOMAIN l : l[i].id = resp[p].body.id}
            IN /\ resp[p].body.id # None
               /\ Cardinality(m) = 1
               /\ \A i \in m : l[i] = [req[p].body EXCEPT !.id = resp[p].body.id]

CreateThenListWitness ==
    \E p, q \in Procs :
        /\ Returned(p, "create_application")
        /\ Returned(q, "get_applications")
        /\ Len(resp[q].body) >= 2
        /\ req[p].body.date_applied.utcoffset # None
        /\ \E i \in DOMAIN resp[q].body : resp[q].body[i] = resp[p].body

\* C4: two create_application requests on their own connections never hold
\* the same identity, and the identity each holds is that of the row the
\* request itself inserted.
HasIdentity(p) ==
    /\ req[p].op = "create_application"
    /\ \/ pc[p] \in {"idset", "committed"}
       \/ pc[p] = "idle" /\ resp[p].status = 200

IdentityOf(p) == IF pc[p] = "idle" THEN resp[p].body.id ELSE obj[p].id

OwnRow(p) ==
    LET row == InsertRow("create_application", req[p].body, IdentityOf(p)[1])
    IN IF pc[p] = "idset"
       THEN txn[p] = Some([kind |-> "insert", table |-> "job_applications", row |-> row])
       ELSE \E i \in DOMAIN db["job_applications"] : db["job_applications"][i] = row

ConcurrentCreatesDistinct ==
    \A p \in Procs :
        HasIdentity(p) =>
            /\ IdentityOf(p) # None
            /\ OwnRow(p)
            /\ \A q \in Procs \ {p} : HasIdentity(q) => IdentityOf(q) # IdentityOf(p)

ConcurrentCreatesWitness ==
    \E p, q \in Procs :
        /\ p # q
        /\ req[p].op = "create_application" /\ pc[p] = "committed"
        /\ req[q].op = "create_application" /\ pc[q] = "idset"

\* C5: the mapping get_application_stats builds has exactly the stored status
\* values as keys, each with the number of applications in that status (so
\* never zero), the values add up to the number of applications, and the
\* mapping is what the handler returns.
StatsExact(stats, rows) ==
    /\ DOMAIN stats = {rows[i].status : i \in DOMAIN rows}
    /\ \A s \in DOMAIN stats :
          /\ stats[s] = Cardinality({i \in DOMAIN rows : rows[i].status = s})
          /\ stats[s] > 0
    /\ SumOver(stats, DOMAIN stats) = Len(rows)

StatsMatchTable ==
    [][\A p \in Procs :
          (req[p].op = "get_application_stats" /\ Stepped(p)) =>
             /\ pc[p] = "connected" => StatsExact(obj'[p], db["job_applications"])
             /\ pc[p] = "fetched" => resp'[p] = Ok(obj[p])]_vars

StatsWitness ==
    \E p \in Procs :
        /\ Returned(p, "get_application_stats")
        /\ \E s \in DOMAIN resp[p].body : resp[p].body[s] = 2

\* C6: complete_task for a stored task never ends in NotFound: it commits,
\* the task is completed afterwards, it answers 200, and when the task was
\* completed already the call leaves the database as it was.
CompleteIdempotent ==
    [][\A p \in Procs :
          ( /\ req[p].op = "complete_task"
            /\ Stepped(p)
            /\ pc[p] \in {"executed", "committed"}
            /\ req[p].task_id \in Ids(db["tasks"]) )
          => /\ pc[p] = "executed" =>
                  /\ pc'[p] = "committed"
                  /\ IsCompleted(db'["tasks"], req[p].task_id)
                  /\ IsCompleted(db["tasks"], req[p].task_id) => db' = db
             /\ pc[p] = "committed" =>
                  /\ resp'[p].status = 200
                  /\ IsCompleted(db'["tasks"], req[p].task_id)]_vars

CompleteTwiceWitness ==
    \E p, q \in Procs :
        /\ p # q
        /\ Returned(p, "complete_task")
        /\ Returned(q, "complete_task")
        /\ req[p].task_id = req[q].task_id
        /\ IsCompleted(db["tasks"], req[p].task_id)

\* C7: create_task whose job_application_id names no stored job application
\* is not rejected: the only failure it can meet is a locked database, and
\* when it returns, its row holds the job_application_id as given and the
\* response a non-null identity.
Dangling(p) ==
    /\ req[p].op = "create_task"
    /\ req[p].body.job_application_id # None
    /\ req[p].body.job_application_id[1] \notin Ids(db["job_applications"])

DanglingReferenceAccepted ==
    \A p \in Procs :
        Dangling(p) =>
            /\ resp[p].status \in {0, 200, 500}
            /\ resp[p].status = 500 => resp[p] = StorageFailure("database is locked")
            /\ (pc[p] = "idle" /\ resp[p].status = 200) =>
                  /\ resp[p].body.id # None
                  /\ resp[p].body.id # req[p].body.id
                  /\ \E i \in DOMAIN db["tasks"] :
                        /\ db["tasks"][i].id = resp[p].body.id[1]
                        /\ db["tasks"][i].job_application_id = req[p].body.job_application_id

DanglingWitness ==
    \E p \in Procs :
        /\ Dangling(p)
        /\ Returned(p, "create_task")
        /\ db["job_applications"] # <<>>

\* C8: a create handler adds exactly one row, to its own table and with an
\* identity no stored row has; the model object takes that identity whatever
\* id the request carried, and the response is the request body with that
\* identity.
CreateIgnoresSuppliedId ==
    [][\A p \in Procs :
          (req[p].op \in CreateOps /\ Stepped(p)) =>
             LET t == TableOf(req[p].op)
                 n == Len(db[t])
             IN /\ pc[p] \in {"connected", "executed", "committed", "raised"} => db' = db
                /\ pc[p] = "idset" =>
                      /\ Len(db'[t]) = n + 1
                      /\ SubSeq(db'[t], 1, n) = db[t]
                      /\ \A u \in Tables \ {t} : db'[u] = db[u]
                      /\ db'[t][n + 1].id \notin Ids(db[t])
                      /\ obj[p].id = Some(db'[t][n + 1].id)
                      /\ db'[t][n + 1] = InsertRow(req[p].op, req[p].body, db'[t][n + 1].id)
                /\ pc[p] = "committed" =>
                      /\ resp'[p] = Ok([req[p].body EXCEPT !.id = obj[p].id])
                      /\ \E i \in DOMAIN db[t] : Some(db[t][i].id) = obj[p].id]_vars

CreateIgnoresSuppliedIdWitness ==
    \E p, q \in Procs :
        /\ p # q
        /\ Returned(p, "create_contact")
        /\ Returned(q, "create_document")
        /\ req[p].body.id # None /\ resp[p].body.id # req[p].body.id
        /\ req[q].body.id # None /\ resp[q].body.id # req[q].body.id

\* C9: the commit of a successful complete_task leaves the other three tables,
\* the number and order of task rows, every other task row and every field of
\* the named row but completed as they were, and that row is completed.
CompleteFrame ==
    [][\A p \in Procs :
          (req[p].op = "complete_task" /\ pc[p] = "executed" /\ pc'[p] = "committed") =>
             /\ \A t \in Tables \ {"tasks"} : db'[t] = db[t]
             /\ Len(db'["tasks"]) = Len(db["tasks"])
             /\ \A i \in DOMAIN db["tasks"] :
                   IF db["tasks"][i].id = req[p].task_id
                   THEN /\ db'["tasks"][i].completed = 1
                        /\ [db'["tasks"][i] EXCEPT !.completed = 0]
                              = [db["tasks"][i] EXCEPT !.completed = 0]
                   ELSE db'["tasks"][i] = db["tasks"][i]]_vars

CompleteFrameWitness ==
    \E p \in Procs :
        /\ Returned(p, "complete_task")
        /\ \E i, j \in DOMAIN db["tasks"] :
              /\ db["tasks"][i].id = req[p].task_id
              /\ db["tasks"][i].completed = 1
              /\ db["tasks"][j].id # req[p].task_id
              /\ db["tasks"][j].completed = 0

\* C10: in every step each table keeps its rows and their identities, a task
\* that is completed stays completed, and a stored row changes only in the
\* commit of a complete_task for that row's identity.
RowsMonotonic ==
    [][\A t \in Tables :
          /\ Len(db'[t]) >= Len(db[t])
          /\ \A i \in DOMAIN db[t] :
                /\ db'[t][i].id = db[t][i].id
                /\ (t = "tasks" /\ db[t][i].completed = 1) => db'[t][i].completed = 1
                /\ db'[t][i] # db[t][i] =>
                      /\ t = "tasks"
                      /\ \E p \in Procs :
                            /\ req[p].op = "complete_task"
                            /\ pc[p] = "executed" /\ pc'[p] = "committed"
                            /\ req[p].task_id = db[t][i].id]_vars

RowsMonotonicWitness ==
    \E p, q \in Procs :
        /\ Returned(p, "complete_task")
        /\ Returned(q, "create_task")
        /\ req[q].body.completed
        /\ req[p].task_id = resp[q].body.id[1]
        /\ IsCompleted(db["tasks"], req[p].task_id)

====
